---- MODULE Spec2Model ----
(* Turn controller of the Twilio media-stream relay (mark-gated variant,    *)
(* src/unnamed/part_000): the per-connection maps, the async message        *)
(* handler with its suspension points, and the provider helpers.            *)
EXTENDS Integers, Sequences, FiniteSets, TLC

\* ---------------------------------------------------------------- bounds
MaxFrames == 6        \* frames appended to audioChunks over one behaviour
MaxNow    == 4500     \* last clock value (ms)
TickMs    == 1000     \* clock granularity (ms)
Threshold == 3        \* frames per utterance: `length >= 60` in the source
                      \* (part_000:176), scaled down; only >= is applied to it
MaxCalls    == 7      \* chatReply calls in one behaviour of SpecHistory
MaxInFlight == 2      \* chatReply calls suspended at once in SpecHistory
MaxEntries  == 2      \* entries of CALLER_WHITELIST in SpecVoice

\* ------------------------------------------------------ program constants
GreetDelay   == 400         \* setTimeout before the greeting
GreetMute    == 2500        \* mute window after the greeting
Cooldown     == 2000        \* mute window after a mark
Infinity     == 1000000000  \* JS Infinity: larger than every Date.now()
KeepLast     == 10          \* history.slice(history.length - 10)
PruneAbove   == 11          \* if (history.length > 11)
ShiftAbove   == 21          \* while (history.length > 21)

Conns == {"ws1"}
Sids  == {"MZ1"}            \* data.start.streamSid; "none" stands for undefined

VARIABLES
  now,                  \* Date.now()
  audioChunks,          \* Map ws -> array of frames
  streamIds,            \* Map ws -> streamSid
  speakingUntil,        \* Map ws -> timestamp | Infinity
  conversationHistory,  \* Map ws -> history array (the array lives in arrays)
  arrays,               \* the history array objects, by the ws they were made for
  greet,                \* position of the `start` handler of each connection
  runs,                 \* pipeline runs suspended at a provider call
  sent,                 \* messages passed to ws.send by the last step, in order
  pending,              \* mark requests sent and not yet answered
  files,                \* temporary files that exist under /tmp
  closed,               \* connections whose transport has closed
  voice,                \* the request and response of POST /twilio/voice
  nAppended,            \* frames pushed onto audioChunks so far (frame ids)
  flushed,              \* concatenation of every flush result so far
  nMsgs,                \* messages pushed onto a history so far (message ids)
  nRuns,                \* pipeline runs started so far (run ids)
  last                  \* what the last step did, and the provider it called

vars == <<now, audioChunks, streamIds, speakingUntil, conversationHistory,
          arrays, greet, runs, sent, pending, files, closed, voice,
          nAppended, flushed,
          nMsgs, nRuns, last>>

\* ------------------------------------------------------------- Map helpers
Has(m, k) == k \in DOMAIN m

MapSet(m, k, v) == [x \in DOMAIN m \cup {k} |-> IF x = k THEN v ELSE m[x]]

MapDelete(m, k) == [x \in DOMAIN m \ {k} |-> m[x]]

EmptyMap == [x \in {} |-> 0]

\* --------------------------------------------------------- Array helpers
\* Array.prototype.slice(start) with a 0-based, non-negative start
Slice(s, start) == SubSeq(s, start + 1, Len(s))

\* Array.prototype.splice(start, deleteCount, ...items), 0-based start
Splice(s, start, deleteCount, items) ==
  SubSeq(s, 1, start) \o items \o SubSeq(s, start + deleteCount + 1, Len(s))

Preamble == [role |-> "system", id |-> 0]

Push(history, role, id) == Append(history, [role |-> role, id |-> id])

RECURSIVE ShiftWhile(_)
ShiftWhile(history) ==
  IF Len(history) > ShiftAbove
    THEN ShiftWhile(Splice(history, 1, 1, <<>>))
    ELSE history

\* the prune with its splice starting at index 0
Prune_FromZero(history) ==
  IF Len(history) > PruneAbove
    THEN LET recent == Slice(history, Len(history) - KeepLast)
         IN ShiftWhile(Splice(history, 0, Len(history) - KeepLast, recent))
    ELSE history

Prune(history) ==
  IF Len(history) > PruneAbove
    THEN LET recent == Slice(history, Len(history) - KeepLast)
         IN ShiftWhile(Splice(history, 1, Len(history) - 1 - KeepLast, recent))
    ELSE history

\* ---------------------------------------------------------------- the gate
\* the gate with the cooldown comparison left out
Muted_OnlyInfinity(ws) ==
  /\ Has(speakingUntil, ws)
  /\ speakingUntil[ws] = Infinity

Muted(ws) ==
  /\ Has(speakingUntil, ws)
  /\ \/ speakingUntil[ws] = Infinity
     \/ now < speakingUntil[ws]

\* ----------------------------------------------------- the voice webhook
\* strings are sequences of tokens; Blank is a whitespace character
Blank == " "

\* String.prototype.trim
RECURSIVE TrimStart(_)
TrimStart(s) == IF s # <<>> /\ Head(s) = Blank THEN TrimStart(Tail(s)) ELSE s

RECURSIVE TrimEnd(_)
TrimEnd(s) ==
  IF s # <<>> /\ s[Len(s)] = Blank THEN TrimEnd(SubSeq(s, 1, Len(s) - 1)) ELSE s

Trim(s) == TrimEnd(TrimStart(s))

\* new Set(CALLER_WHITELIST.split(',').map(s => s.trim()).filter(Boolean)),
\* from the entries that split(',') returns
whitelist(entries) ==
  {Trim(entries[i]) : i \in 1..Len(entries)} \ {<<>>}

\* `wss://${host}/twilio/stream`
wsUrl(host) == <<"wss://", host, "/twilio/stream">>

\* the two documents the handler sends
RejectMarkup ==
  [say |-> "Sorry, this number is not authorized.", reject |-> "rejected",
   stream |-> <<>>, pause |-> 0]

StreamMarkup(host) ==
  [say |-> "", reject |-> "", stream |-> wsUrl(host), pause |-> 60]

NoMarkup == [say |-> "", reject |-> "", stream |-> <<>>, pause |-> 0]

\* app.post('/twilio/voice') as a function of the configuration and request
voiceHandler_NoSizeCheck(entries, from, host) ==
  IF from \notin whitelist(entries)
    THEN RejectMarkup
    ELSE StreamMarkup(host)

voiceHandler(entries, from, host) ==
  IF whitelist(entries) # {} /\ from \notin whitelist(entries)
    THEN RejectMarkup
    ELSE StreamMarkup(host)

\* no request handled yet
NoRequest == [entries |-> <<>>, from |-> <<>>, host |-> "", handled |-> FALSE,
              response |-> NoMarkup]

Init ==
  /\ now = 0
  /\ audioChunks = EmptyMap
  /\ streamIds = EmptyMap
  /\ speakingUntil = EmptyMap
  /\ conversationHistory = EmptyMap
  /\ arrays = EmptyMap
  /\ greet = EmptyMap
  /\ runs = {}
  /\ sent = <<>>
  /\ pending = 0
  /\ files = {}
  /\ closed = {}
  /\ voice = NoRequest
  /\ nAppended = 0
  /\ flushed = <<>>
  /\ nMsgs = 0
  /\ nRuns = 0
  /\ last = [op |-> "init", run |-> 0, call |-> "none"]

Step(op, run, call) == [op |-> op, run |-> run, call |-> call]

\* ----------------------------------------------------- provider helpers
\* whisperSTT: json.text || ''  (a non-2xx answer is logged and has no text;
\* a body that is not JSON makes resp.json() throw)
WhisperResponses == {"ok_text", "ok_empty", "non2xx", "malformed"}

\* whisperSTT handing back a text for an empty transcription
whisperSTT_EmptyAsText(resp) ==
  CASE resp = "ok_text"   -> [threw |-> FALSE, text |-> "text"]
    [] resp = "ok_empty"  -> [threw |-> FALSE, text |-> "text"]
    [] resp = "non2xx"    -> [threw |-> FALSE, text |-> ""]
    [] resp = "malformed" -> [threw |-> TRUE,  text |-> ""]

whisperSTT(resp) ==
  CASE resp = "ok_text"   -> [threw |-> FALSE, text |-> "text"]
    [] resp = "ok_empty"  -> [threw |-> FALSE, text |-> ""]
    [] resp = "non2xx"    -> [threw |-> FALSE, text |-> ""]
    [] resp = "malformed" -> [threw |-> TRUE,  text |-> ""]

\* chatReply, up to its await: history.push({role: 'user', ...})
chatReplyCall(history, id) == Push(history, "user", id)

\* chatReply, after its await
ChatResponses == {"ok", "ok_nochoices", "non2xx", "malformed"}

BrainFart == "Sorry, I had a brain fart."

MissedThat == "Sorry, I missed that."

\* chatReply answering an unparsable body with its default reply
chatReplyReturn_Swallow(history, resp, id) ==
  CASE resp = "non2xx" ->
         [threw |-> FALSE, reply |-> BrainFart, history |-> history, pushed |-> 0]
    [] resp \in {"ok_nochoices", "malformed"} ->
         [threw |-> FALSE, reply |-> MissedThat,
          history |-> Prune(Push(history, "assistant", id)), pushed |-> 1]
    [] resp = "ok" ->
         [threw |-> FALSE, reply |-> "content",
          history |-> Prune(Push(history, "assistant", id)), pushed |-> 1]

chatReplyReturn(history, resp, id) ==
  CASE resp = "malformed" ->
         [threw |-> TRUE, reply |-> "", history |-> history, pushed |-> 0]
    [] resp = "non2xx" ->
         [threw |-> FALSE, reply |-> BrainFart,
          history |-> history, pushed |-> 0]
    [] resp = "ok_nochoices" ->
         [threw |-> FALSE, reply |-> MissedThat,
          history |-> Prune(Push(history, "assistant", id)), pushed |-> 1]
    [] resp = "ok" ->
         [threw |-> FALSE, reply |-> "content",
          history |-> Prune(Push(history, "assistant", id)), pushed |-> 1]

\* elevenTTS: writes outPath only on a 2xx answer; returns quietly otherwise
TtsResponses == {"ok", "non2xx", "throw"}

elevenTTS(resp) ==
  CASE resp = "ok"     -> [threw |-> FALSE, written |-> TRUE]
    [] resp = "non2xx" -> [threw |-> FALSE, written |-> FALSE]
    [] resp = "throw"  -> [threw |-> TRUE,  written |-> FALSE]

MediaMsg(sid, payload, run) ==
  [event |-> "media", streamSid |-> sid, payload |-> payload, run |-> run]

MarkMsg(sid, run) ==
  [event |-> "mark", streamSid |-> sid, payload |-> "reply_complete", run |-> run]

\* a successful turn that requests no mark
ReplyMessages_NoMark(sid, reply, run) == <<MediaMsg(sid, reply, run)>>

\* the two ws.send calls of a successful turn
ReplyMessages(sid, reply, run) == <<MediaMsg(sid, reply, run), MarkMsg(sid, run)>>

\* a temporary file; run is 0 for the files of the `start` branch (the paths
\* carry a Date.now() stamp, taken here to differ from run to run)
File(name, ws, run) == [name |-> name, ws |-> ws, run |-> run]

\* mp3Path and mulawPath of the `start` branch
GreetingFiles(ws) == {File("greet.mp3", ws, 0), File("greet.mulaw", ws, 0)}

\* toneWav and toneMulaw of the `start` branch
ToneFiles(ws) == {File("fallback.wav", ws, 0), File("fallback.mulaw", ws, 0)}

\* the raw file, wavPath, mp3Path and mulawPath of a pipeline run
RunFiles(ws, run) ==
  {File("in.raw", ws, run), File("in.wav", ws, run),
   File("out.mp3", ws, run), File("out.mulaw", ws, run)}

\* how the two ffmpeg calls of the fallback tone end
ToneResults == {"ok", "wav_failed", "mulaw_failed"}

\* a pipeline run suspended at `await whisperSTT(wavPath)`
NewRun(id) == [id |-> id, pc |-> "stt", reply |-> ""]

\* ids a run can get: no more runs than frames, no more calls than MaxCalls
RunIds == 1..(IF MaxFrames > MaxCalls THEN MaxFrames ELSE MaxCalls)

InFlight(id) == \E r \in runs : r.id = id

Run(id) == CHOOSE r \in runs : r.id = id

\* ------------------------------------------------------------- connection
\* mark requests among the messages msgs
MarkRequests(msgs) == Cardinality({i \in 1..Len(msgs) : msgs[i].event = "mark"})

\* wss.on('connection'): install the preamble and the message handler
Connect(ws) ==
  /\ ~Has(arrays, ws)
  /\ arrays' = MapSet(arrays, ws, <<Preamble>>)
  /\ conversationHistory' = MapSet(conversationHistory, ws, ws)
  /\ last' = Step("connect", 0, "none")
  /\ sent' = <<>>
  /\ UNCHANGED <<voice, closed, files, now, audioChunks, streamIds, speakingUntil, greet,
                 runs, pending, nAppended, flushed, nMsgs, nRuns>>

\* event === 'start', up to `await new Promise(r => setTimeout(r, 400))`
Start(ws, sid) ==
  /\ Has(arrays, ws)
  /\ ws \notin closed
  /\ ~Has(greet, ws)
  /\ streamIds' = IF sid # "none" THEN MapSet(streamIds, ws, sid) ELSE streamIds
  /\ greet' = MapSet(greet, ws, [pc |-> "sleep", stamp |-> now, sid |-> sid])
  /\ last' = Step("start", 0, "none")
  /\ sent' = <<>>
  /\ UNCHANGED <<voice, closed, files, now, audioChunks, speakingUntil, conversationHistory,
                 arrays, runs, pending, nAppended, flushed, nMsgs, nRuns>>

\* the 400 ms timer fires: elevenTTS(greeting, mp3Path) issues its fetch
GreetTimer(ws) ==
  /\ Has(greet, ws)
  /\ greet[ws].pc = "sleep"
  /\ now >= greet[ws].stamp + GreetDelay
  /\ greet' = [greet EXCEPT ![ws].pc = "tts"]
  /\ last' = Step("greet_timer", 0, "tts")
  /\ sent' = <<>>
  /\ UNCHANGED <<voice, closed, files, now, audioChunks, streamIds, speakingUntil,
                 conversationHistory, arrays, runs, pending, nAppended,
                 flushed, nMsgs, nRuns>>

\* the greeting's elevenTTS settles: the rest of the `start` branch
\* (try / catch with the fallback tone / finally / audioChunks.set(ws, []))
GreetTtsDone(ws, resp, transcodeOk, tone) ==
  /\ Has(greet, ws)
  /\ greet[ws].pc = "tts"
  /\ LET tts  == elevenTTS(resp)
         played == ~tts.threw /\ tts.written /\ transcodeOk
         toneOk == tone = "ok"
         made   == (IF tts.written THEN {File("greet.mp3", ws, 0)} ELSE {})
                   \cup (IF played THEN {File("greet.mulaw", ws, 0)} ELSE {})
                   \cup (IF ~played /\ tone # "wav_failed"
                           THEN {File("fallback.wav", ws, 0)} ELSE {})
                   \cup (IF ~played /\ toneOk
                           THEN {File("fallback.mulaw", ws, 0)} ELSE {})
         unlinked == GreetingFiles(ws)
                     \cup (IF ~played /\ toneOk THEN ToneFiles(ws) ELSE {})
     IN  /\ files' = (files \cup made) \ unlinked
         /\ sent' =
              IF played THEN <<MediaMsg(greet[ws].sid, "greeting", 0)>>
              ELSE IF toneOk THEN <<MediaMsg(greet[ws].sid, "tone", 0)>>
              ELSE <<>>
         /\ speakingUntil' =
              IF played THEN MapSet(speakingUntil, ws, now + GreetMute)
              ELSE speakingUntil
         /\ last' = Step(IF played THEN "greet_sent"
                         ELSE IF toneOk THEN "greet_fallback"
                         ELSE "greet_failed", 0, "none")
  /\ audioChunks' = MapSet(audioChunks, ws, <<>>)
  /\ greet' = [greet EXCEPT ![ws] = [pc |-> "done", stamp |-> 0, sid |-> "none"]]
  /\ UNCHANGED <<voice, closed, now, streamIds, conversationHistory, arrays, runs,
                 pending, nAppended, flushed, nMsgs, nRuns>>

\* event === 'media': the gate, accumulate, and at the threshold the flush and
\* the pipeline up to `await whisperSTT(wavPath)`
Media(ws, transcodeOk) ==
  /\ Has(arrays, ws)
  /\ ws \notin closed
  /\ IF Muted(ws)
       THEN /\ last' = Step("media_dropped", 0, "none")
            /\ UNCHANGED <<audioChunks, runs, files, nAppended, flushed, nRuns>>
       ELSE /\ nAppended < MaxFrames
            /\ nAppended' = nAppended + 1
            /\ LET chunks  == IF Has(audioChunks, ws) THEN audioChunks[ws] ELSE <<>>
                   buffers == Append(chunks, nAppended + 1)
               IN  IF Len(buffers) >= Threshold
                     THEN /\ audioChunks' = MapSet(audioChunks, ws, <<>>)
                          /\ flushed' = flushed \o buffers
                          /\ nRuns' = nRuns + 1
                          /\ IF transcodeOk
                               THEN /\ runs' = runs \cup {NewRun(nRuns + 1)}
                                    /\ files' = files \cup
                                         {File("in.raw", ws, nRuns + 1),
                                          File("in.wav", ws, nRuns + 1)}
                                    /\ last' = Step("media_flushed", nRuns + 1, "stt")
                               ELSE /\ last' = Step("media_transcode_failed",
                                                    nRuns + 1, "none")
                                    /\ files' = files \cup
                                         {File("in.raw", ws, nRuns + 1)}
                                    /\ UNCHANGED runs
                     ELSE /\ audioChunks' = MapSet(audioChunks, ws, buffers)
                          /\ last' = Step("media_buffered", 0, "none")
                          /\ UNCHANGED <<runs, files, flushed, nRuns>>
  /\ sent' = <<>>
  /\ UNCHANGED <<voice, closed, now, streamIds, speakingUntil, conversationHistory,
                 arrays, greet, pending, nMsgs>>

\* whisperSTT settles; on a transcript, chatReply is entered up to its fetch
SttDone(ws, id, resp) ==
  /\ InFlight(id)
  /\ Run(id).pc = "stt"
  /\ LET stt == whisperSTT(resp)
         r   == Run(id)
     IN  IF stt.threw
           THEN /\ runs' = runs \ {r}
                /\ last' = Step("stt_throw", r.id, "none")
                /\ UNCHANGED <<arrays, nMsgs>>
         ELSE IF stt.text = ""
           THEN /\ runs' = runs \ {r}
                /\ last' = Step(IF resp = "non2xx" THEN "stt_non2xx"
                                ELSE "stt_empty", r.id, "none")
                /\ UNCHANGED <<arrays, nMsgs>>
         ELSE IF ~Has(conversationHistory, ws)
           THEN \* chatReply(transcript, undefined): history.push throws
                /\ runs' = runs \ {r}
                /\ last' = Step("chat_nohistory", r.id, "none")
                /\ UNCHANGED <<arrays, nMsgs>>
           ELSE /\ arrays' = [arrays EXCEPT
                                ![conversationHistory[ws]] =
                                   chatReplyCall(@, nMsgs + 1)]
                /\ nMsgs' = nMsgs + 1
                /\ runs' = (runs \ {r}) \cup {[r EXCEPT !.pc = "chat"]}
                /\ last' = Step("stt_text", r.id, "chat")
  /\ sent' = <<>>
  /\ UNCHANGED <<voice, closed, files, now, audioChunks, streamIds, speakingUntil,
                 conversationHistory, greet, pending, nAppended, flushed,
                 nRuns>>

\* chatReply's fetch settles; with a reply, elevenTTS issues its fetch
ChatDone(ws, id, resp) ==
  /\ InFlight(id)
  /\ Run(id).pc = "chat"
  /\ LET res == chatReplyReturn(arrays[ws], resp, nMsgs + 1)
         r   == Run(id)
     IN  /\ arrays' = [arrays EXCEPT ![ws] = res.history]
         /\ nMsgs' = nMsgs + res.pushed
         /\ IF res.threw
              THEN /\ runs' = runs \ {r}
                   /\ last' = Step("chat_throw", r.id, "none")
              ELSE /\ runs' = (runs \ {r}) \cup
                              {[r EXCEPT !.pc = "tts", !.reply = res.reply]}
                   /\ last' = Step(IF resp = "non2xx" THEN "chat_non2xx"
                                   ELSE "chat_ok", r.id, "tts")
  /\ sent' = <<>>
  /\ UNCHANGED <<voice, closed, files, now, audioChunks, streamIds, speakingUntil,
                 conversationHistory, greet, pending, nAppended, flushed,
                 nRuns>>

\* the reply's elevenTTS settles: transcode, send media and mark, mute
TtsDone(ws, id, resp, transcodeOk) ==
  /\ InFlight(id)
  /\ Run(id).pc = "tts"
  /\ runs' = runs \ {Run(id)}
  /\ LET r    == Run(id)
         tts  == elevenTTS(resp)
         played == ~tts.threw /\ tts.written /\ transcodeOk
         sid    == IF Has(streamIds, ws) THEN streamIds[ws] ELSE "none"
         made   == (IF tts.written THEN {File("out.mp3", ws, id)} ELSE {})
                   \cup (IF played THEN {File("out.mulaw", ws, id)} ELSE {})
     IN  IF played
           THEN /\ files' = (files \cup made) \ RunFiles(ws, id)
                /\ sent' = ReplyMessages(sid, r.reply, r.id)
                /\ pending' = pending + MarkRequests(sent')
                /\ speakingUntil' = MapSet(speakingUntil, ws, Infinity)
                /\ last' = Step("reply_sent", r.id, "none")
           ELSE /\ files' = files \cup made
                /\ last' = Step("reply_failed", r.id, "none")
                /\ sent' = <<>>
                /\ UNCHANGED <<pending, speakingUntil>>
  /\ UNCHANGED <<voice, closed, now, audioChunks, streamIds, conversationHistory,
                 arrays, greet, nAppended, flushed, nMsgs, nRuns>>

Mark_KeepsMute(ws) ==
  /\ Has(arrays, ws)
  /\ ws \notin closed
  /\ pending > 0
  /\ pending' = pending - 1
  /\ last' = Step("mark", 0, "none")
  /\ sent' = <<>>
  /\ UNCHANGED <<speakingUntil, voice, closed, files, now, audioChunks, streamIds, conversationHistory,
                 arrays, greet, runs, nAppended, flushed, nMsgs, nRuns>>

\* event === 'mark': the transport answers a mark request
Mark(ws) ==
  /\ Has(arrays, ws)
  /\ ws \notin closed
  /\ pending > 0
  /\ pending' = pending - 1
  /\ speakingUntil' = MapSet(speakingUntil, ws, now + Cooldown)
  /\ last' = Step("mark", 0, "none")
  /\ sent' = <<>>
  /\ UNCHANGED <<voice, closed, files, now, audioChunks, streamIds, conversationHistory,
                 arrays, greet, runs, nAppended, flushed, nMsgs, nRuns>>

\* the session of ws was destroyed by `stop`: only Stop removes the history
Destroyed(ws) == Has(arrays, ws) /\ ~Has(conversationHistory, ws)

Stop_ResetsBuffer(ws) ==
  /\ Has(arrays, ws)
  /\ ws \notin closed
  /\ audioChunks' = MapSet(audioChunks, ws, <<>>)
  /\ streamIds' = MapDelete(streamIds, ws)
  /\ speakingUntil' = MapDelete(speakingUntil, ws)
  /\ conversationHistory' = MapDelete(conversationHistory, ws)
  /\ last' = Step(IF Destroyed(ws) THEN "stop_again" ELSE "stop", 0, "none")
  /\ sent' = <<>>
  /\ UNCHANGED <<voice, closed, files, now, arrays, greet, runs, pending, nAppended,
                 flushed, nMsgs, nRuns>>

\* event === 'stop'
Stop(ws) ==
  /\ Has(arrays, ws)
  /\ ws \notin closed
  /\ audioChunks' = MapDelete(audioChunks, ws)
  /\ streamIds' = MapDelete(streamIds, ws)
  /\ speakingUntil' = MapDelete(speakingUntil, ws)
  /\ conversationHistory' = MapDelete(conversationHistory, ws)
  /\ last' = Step(IF Destroyed(ws) THEN "stop_again" ELSE "stop", 0, "none")
  /\ sent' = <<>>
  /\ UNCHANGED <<voice, closed, files, now, arrays, greet, runs, pending, nAppended,
                 flushed, nMsgs, nRuns>>

\* the transport closes without a `stop` event; the connection callback
\* registers no 'close' listener, so no code runs and no more events arrive
Close(ws) ==
  /\ Has(arrays, ws)
  /\ ws \notin closed
  /\ closed' = closed \cup {ws}
  /\ last' = Step("close", 0, "none")
  /\ sent' = <<>>
  /\ UNCHANGED <<voice, files, now, audioChunks, streamIds, speakingUntil,
                 conversationHistory, arrays, greet, runs, pending,
                 nAppended, flushed, nMsgs, nRuns>>

\* Date.now() advances
Tick ==
  /\ now + TickMs <= MaxNow
  /\ now' = now + TickMs
  /\ last' = Step("tick", 0, "none")
  /\ sent' = <<>>
  /\ UNCHANGED <<voice, closed, files, audioChunks, streamIds, speakingUntil,
                 conversationHistory, arrays, greet, runs, pending,
                 nAppended, flushed, nMsgs, nRuns>>

Next ==
  \/ \E ws \in Conns : Connect(ws)
  \/ \E ws \in Conns, sid \in Sids : Start(ws, sid)
  \/ \E ws \in Conns : GreetTimer(ws)
  \/ \E ws \in Conns, resp \in TtsResponses, t \in BOOLEAN, f \in ToneResults :
       GreetTtsDone(ws, resp, t, f)
  \/ \E ws \in Conns, t \in BOOLEAN : Media(ws, t)
  \/ \E ws \in Conns, id \in RunIds, resp \in WhisperResponses : SttDone(ws, id, resp)
  \/ \E ws \in Conns, id \in RunIds, resp \in ChatResponses : ChatDone(ws, id, resp)
  \/ \E ws \in Conns, id \in RunIds, resp \in TtsResponses, t \in BOOLEAN :
       TtsDone(ws, id, resp, t)
  \/ \E ws \in Conns : Mark(ws)
  \/ \E ws \in Conns : Stop(ws)
  \/ \E ws \in Conns : Close(ws)
  \/ Tick

Spec == Init /\ [][Next]_vars

\* ------------------------------------------- a call that is not ended
\* the session is not stopped and the transport stays open; the transport
\* answers every mark request, the clock advances, media keeps arriving
LiveNext ==
  \/ \E ws \in Conns : Connect(ws)
  \/ \E ws \in Conns, sid \in Sids : Start(ws, sid)
  \/ \E ws \in Conns : GreetTimer(ws)
  \/ \E ws \in Conns, resp \in TtsResponses, t \in BOOLEAN, f \in ToneResults :
       GreetTtsDone(ws, resp, t, f)
  \/ \E ws \in Conns, t \in BOOLEAN : Media(ws, t)
  \/ \E ws \in Conns, id \in RunIds, resp \in WhisperResponses : SttDone(ws, id, resp)
  \/ \E ws \in Conns, id \in RunIds, resp \in ChatResponses : ChatDone(ws, id, resp)
  \/ \E ws \in Conns, id \in RunIds, resp \in TtsResponses, t \in BOOLEAN :
       TtsDone(ws, id, resp, t)
  \/ \E ws \in Conns : Mark(ws)
  \/ Tick

SpecLive ==
  /\ Init
  /\ [][LiveNext]_vars
  /\ WF_vars(Tick)
  /\ \A ws \in Conns : WF_vars(Mark(ws))
  /\ \A ws \in Conns : WF_vars(\E t \in BOOLEAN : Media(ws, t))

\* ------------------------------------------------ chatReply on its own
\* the state right after wss.on('connection')
HistInit ==
  /\ now = 0
  /\ audioChunks = EmptyMap
  /\ streamIds = EmptyMap
  /\ speakingUntil = EmptyMap
  /\ conversationHistory = [ws \in Conns |-> ws]
  /\ arrays = [ws \in Conns |-> <<Preamble>>]
  /\ greet = EmptyMap
  /\ runs = {}
  /\ sent = <<>>
  /\ pending = 0
  /\ files = {}
  /\ closed = {}
  /\ voice = NoRequest
  /\ nAppended = 0
  /\ flushed = <<>>
  /\ nMsgs = 0
  /\ nRuns = 0
  /\ last = Step("connect", 0, "none")

\* chatReply(transcript, conversationHistory.get(ws)) up to its fetch
HistCall(ws) ==
  /\ Has(conversationHistory, ws)
  /\ nRuns < MaxCalls
  /\ Cardinality(runs) < MaxInFlight
  /\ arrays' = [arrays EXCEPT
                  ![conversationHistory[ws]] = chatReplyCall(@, nMsgs + 1)]
  /\ nMsgs' = nMsgs + 1
  /\ nRuns' = nRuns + 1
  /\ runs' = runs \cup {[NewRun(nRuns + 1) EXCEPT !.pc = "chat"]}
  /\ last' = Step("stt_text", nRuns + 1, "chat")
  /\ sent' = <<>>
  /\ UNCHANGED <<voice, closed, files, now, audioChunks, streamIds, speakingUntil,
                 conversationHistory, greet, pending, nAppended, flushed>>

\* chatReply from its fetch to its return
HistReturn(ws, id, resp) ==
  /\ InFlight(id)
  /\ Run(id).pc = "chat"
  /\ LET res == chatReplyReturn(arrays[ws], resp, nMsgs + 1)
         r   == Run(id)
     IN  /\ arrays' = [arrays EXCEPT ![ws] = res.history]
         /\ nMsgs' = nMsgs + res.pushed
         /\ last' = Step(IF res.threw THEN "chat_throw"
                         ELSE IF resp = "non2xx" THEN "chat_non2xx"
                         ELSE "chat_ok", id, "none")
  /\ runs' = runs \ {Run(id)}
  /\ sent' = <<>>
  /\ UNCHANGED <<voice, closed, files, now, audioChunks, streamIds, speakingUntil,
                 conversationHistory, greet, pending, nAppended, flushed,
                 nRuns>>

HistNext ==
  \/ \E ws \in Conns : HistCall(ws)
  \/ \E ws \in Conns, id \in RunIds, resp \in ChatResponses : HistReturn(ws, id, resp)

SpecHistory == HistInit /\ [][HistNext]_vars

\* ---------------------------------------------- the voice webhook on its own
\* what split(',') can return for CALLER_WHITELIST: at least one entry
WhitelistEntries ==
  {<<>>, <<Blank>>, <<"+1">>, <<Blank, "+1", Blank>>, <<"+2">>}

EntryLists == UNION {[1..n -> WhitelistEntries] : n \in 1..MaxEntries}

\* req.body.From
Froms == {<<>>, <<"+1">>, <<"+2">>, <<"+3">>, <<Blank, "+1">>}

\* req.headers.host
Hosts == {"relay.example", "other.example"}

VoiceInit ==
  /\ now = 0
  /\ audioChunks = EmptyMap
  /\ streamIds = EmptyMap
  /\ speakingUntil = EmptyMap
  /\ conversationHistory = EmptyMap
  /\ arrays = EmptyMap
  /\ greet = EmptyMap
  /\ runs = {}
  /\ sent = <<>>
  /\ pending = 0
  /\ files = {}
  /\ closed = {}
  /\ nAppended = 0
  /\ flushed = <<>>
  /\ nMsgs = 0
  /\ nRuns = 0
  /\ last = [op |-> "init", run |-> 0, call |-> "none"]
  /\ \E entries \in EntryLists, from \in Froms, host \in Hosts :
       voice = [entries |-> entries, from |-> from, host |-> host,
                handled |-> FALSE, response |-> NoMarkup]

\* POST /twilio/voice is handled
Voice ==
  /\ ~voice.handled
  /\ voice' = [voice EXCEPT
                 !.handled = TRUE,
                 !.response = voiceHandler(voice.entries, voice.from, voice.host)]
  /\ last' = Step("voice", 0, "none")
  /\ UNCHANGED <<now, audioChunks, streamIds, speakingUntil, conversationHistory,
                 arrays, greet, runs, sent, pending, files, closed, nAppended,
                 flushed, nMsgs, nRuns>>

VoiceNext == Voice

SpecVoice == VoiceInit /\ [][VoiceNext]_vars

\* ------------------------------------------------------------ properties
RunOps == {"stt_throw", "stt_non2xx", "stt_empty", "chat_nohistory", "stt_text",
           "chat_throw", "chat_non2xx", "chat_ok", "reply_sent", "reply_failed"}

\* the `start` handler of ws has run to its end
Greeted(ws) == Has(greet, ws) /\ greet[ws].pc = "done"

\* C1: at most one pipeline run of a started session is in flight at any
\* instant.
C1_AtMostOneRun ==
  \A ws \in Conns : Greeted(ws) /\ ~Destroyed(ws) => Cardinality(runs) <= 1

\* C2: a pipeline step taken after `stop` was handled sends no `media` or
\* `mark` and re-creates no per-connection entry.
C2_StopAbandonsPipeline ==
  [][\A ws \in Conns :
       Greeted(ws) /\ Destroyed(ws) /\ last'.op \in RunOps =>
         /\ sent' = <<>>
         /\ DOMAIN audioChunks' = DOMAIN audioChunks
         /\ DOMAIN streamIds' = DOMAIN streamIds
         /\ DOMAIN speakingUntil' = DOMAIN speakingUntil
         /\ DOMAIN conversationHistory' = DOMAIN conversationHistory]_vars

\* C3: a `media` event that arrives while mutedUntil is Infinity or a
\* timestamp in the future is dropped: the buffer, the history, the stream
\* id and mutedUntil are unchanged and no pipeline is started.
C3_MutedMediaDropped ==
  [][\A ws \in Conns :
       /\ Has(speakingUntil, ws)
       /\ speakingUntil[ws] = Infinity \/ now < speakingUntil[ws]
       /\ \E t \in BOOLEAN : Media(ws, t)
       => /\ UNCHANGED <<audioChunks, arrays, conversationHistory, streamIds,
                         speakingUntil, runs, nRuns, nAppended, flushed>>
          /\ last'.op = "media_dropped"
          /\ last'.call = "none"]_vars

\* a frame was dropped during a cooldown, with frames waiting in the buffer
C3_Witness ==
  \E ws \in Conns :
    /\ last.op = "media_dropped"
    /\ Has(speakingUntil, ws)
    /\ speakingUntil[ws] # Infinity
    /\ now < speakingUntil[ws]
    /\ Has(audioChunks, ws)
    /\ Len(audioChunks[ws]) > 0

Iota(n) == [i \in 1..n |-> i]

\* C4: while the session lives, the frames returned by the flushes so far
\* followed by the frames still buffered are exactly the frames appended, in
\* arrival order, and a flush leaves the buffer empty.
C4_NoFrameLost ==
  \A ws \in Conns :
    ~Destroyed(ws) =>
      /\ flushed \o (IF Has(audioChunks, ws) THEN audioChunks[ws] ELSE <<>>)
            = Iota(nAppended)
      /\ last.op \in {"media_flushed", "media_transcode_failed"}
            => audioChunks[ws] = <<>>

\* C5: after every chatReply call completes (none left in flight), the
\* history is no longer than the preamble plus the 10 kept messages.
C5_HistoryBounded ==
  \A ws \in DOMAIN arrays :
    runs = {} /\ last.op \in {"chat_ok", "chat_non2xx", "chat_throw"}
      => Len(arrays[ws]) <= 1 + KeepLast

\* C6: history[0] is the preamble installed at connection time, and the
\* preamble is nowhere else: appends and prunes never change, move or evict it.
C6_PreambleFixed ==
  \A ws \in DOMAIN arrays :
    /\ Len(arrays[ws]) >= 1
    /\ arrays[ws][1] = Preamble
    /\ \A i \in 2..Len(arrays[ws]) : arrays[ws][i] # Preamble

\* a chatReply call has just pruned the history
C6_Witness ==
  \E ws \in DOMAIN arrays :
    /\ last.op = "chat_ok"
    /\ Len(arrays[ws]) > PruneAbove
    /\ arrays[ws][2].id > 1

\* C7: the entries after the preamble are the most recently appended
\* messages, in append order, each at most once (checked between calls).
C7_OrderKept ==
  \A ws \in DOMAIN arrays :
    LET h == arrays[ws]
    IN  runs = {} => \A i \in 2..Len(h) : h[i].id = nMsgs - (Len(h) - i)

\* C8: a successful run sends one `media`, then one `mark`, and leaves
\* mutedUntil at Infinity; no other step of a run sends anything.
C8_ReplyThenSpeaking ==
  \A ws \in Conns :
    /\ last.op = "reply_sent" =>
         /\ Len(sent) = 2
         /\ sent[1].event = "media" /\ sent[1].run = last.run
         /\ sent[2].event = "mark" /\ sent[2].run = last.run
         /\ Has(speakingUntil, ws) /\ speakingUntil[ws] = Infinity
         /\ ~InFlight(last.run)
    /\ last.op \in RunOps \ {"reply_sent"} => sent = <<>>

\* a run has just played a generated reply on a live, greeted session
C8_Witness ==
  \E ws \in Conns :
    /\ last.op = "reply_sent"
    /\ sent[1].payload = "content"
    /\ Greeted(ws)
    /\ ~Destroyed(ws)

\* C9: on an empty transcript the run ends without calling the Language or
\* the Synthesis Provider, sends nothing, and leaves the history, mutedUntil
\* and the buffer as they were, so the gate treats the next frame as before.
C9_EmptyTranscriptSkips ==
  [][\A ws \in Conns, id \in RunIds :
       SttDone(ws, id, "ok_empty") =>
         /\ UNCHANGED <<arrays, conversationHistory, speakingUntil,
                        audioChunks, streamIds, pending, nMsgs>>
         /\ sent' = <<>>
         /\ last'.call = "none"
         /\ \A r \in runs' : r.id # id]_vars

\* an empty transcript has just ended a run of a live, greeted session
C9_Witness ==
  \E ws \in Conns :
    /\ last.op = "stt_empty"
    /\ Greeted(ws)
    /\ ~Destroyed(ws)
    /\ ~Muted(ws)

C11_ReplyFailurePlaysTone ==
  [][\A ws \in Conns, id \in RunIds :
       (\E t \in BOOLEAN : TtsDone(ws, id, "non2xx", t) \/ TtsDone(ws, id, "throw", t))
         => /\ Len(sent') = 1
            /\ sent'[1].event = "media"
            /\ sent'[1].payload = "tone"]_vars

\* C12: when the greeting's synthesis fails, the fallback tone is sent as an
\* outbound `media` (when the tone itself could be produced), and when the
\* `start` handler finishes none of the greeting's temporary files (greeting
\* mp3/mulaw, fallback wav/mulaw) exists, whichever fallback step failed.
C12_GreetingFallbackCleans ==
  [][\A ws \in Conns, resp \in TtsResponses, t \in BOOLEAN, tone \in ToneResults :
       (GreetTtsDone(ws, resp, t, tone) /\ ~(resp = "ok" /\ t))
         => /\ tone = "ok" => /\ Len(sent') = 1
                              /\ sent'[1].event = "media"
                              /\ sent'[1].payload = "tone"
            /\ files' \cap (GreetingFiles(ws) \cup ToneFiles(ws)) = {}]_vars

\* C13: cleanup of temporary files is unconditional: once a pipeline run has
\* ended (success, empty transcript or a failure at any stage), none of the
\* files it created remains; every file of a run belongs to a run in flight.
C13_RunFilesRemoved ==
  \A f \in files : f.run # 0 => InFlight(f.run)

\* C14: a session is destroyed when its connection ends, by `stop` or by a
\* transport close without `stop`: from then on no per-connection map holds
\* an entry for the connection, and no later event re-creates one.
C14_EndedConnectionHasNoEntry ==
  \A ws \in Conns :
    (Destroyed(ws) \/ ws \in closed)
      => /\ ~Has(audioChunks, ws)
         /\ ~Has(streamIds, ws)
         /\ ~Has(speakingUntil, ws)
         /\ ~Has(conversationHistory, ws)

\* C15: `stop` is idempotent: a second `stop` for an already-destroyed session
\* raises no error and leaves every per-connection map exactly as the first
\* `stop` left it, with no entry for the connection.
C15_StopIdempotent ==
  [][\A ws \in Conns :
       (Destroyed(ws) /\ last.op \in {"stop", "stop_again"} /\ Stop(ws))
         => /\ UNCHANGED <<audioChunks, streamIds, speakingUntil, conversationHistory>>
            /\ ~Has(audioChunks', ws)
            /\ ~Has(streamIds', ws)
            /\ ~Has(speakingUntil', ws)
            /\ ~Has(conversationHistory', ws)]_vars

\* a second `stop` has been handled for a session that had been started
C15_Witness ==
  /\ last.op = "stop_again"
  /\ \E ws \in Conns : Destroyed(ws) /\ Has(greet, ws) /\ ~Has(audioChunks, ws)

\* C16: the voice webhook answers with the rejection markup, and no stream
\* markup, exactly when the allow-list is non-empty and the caller is not in
\* it; otherwise (an empty allow-list included) it answers with the stream
\* markup, whose URL carries the host of the request.
C16_VoiceWebhook ==
  voice.handled =>
    LET allowed  == {i \in 1..Len(voice.entries) : Trim(voice.entries[i]) # <<>>}
        listed   == \E i \in allowed : Trim(voice.entries[i]) = voice.from
    IN  IF allowed # {} /\ ~listed
          THEN /\ voice.response.reject = "rejected"
               /\ voice.response.stream = <<>>
          ELSE /\ voice.response.reject = ""
               /\ voice.response.stream = <<"wss://", voice.host, "/twilio/stream">>

\* a caller that is not listed has been rejected under an allow-list written
\* with padding and an empty entry
C16_Witness ==
  /\ voice.handled
  /\ voice.entries = << <<Blank, "+1", Blank>>, <<>> >>
  /\ voice.from = <<"+2">>
  /\ voice.response = RejectMarkup

\* the last value the bounded clock takes
LastNow == (MaxNow \div TickMs) * TickMs

\* the last step pushed a frame onto audioChunks
Accepted == last.op \in {"media_buffered", "media_flushed", "media_transcode_failed"}

\* C17: a session that enters SPEAKING (speakingUntil = Infinity) returns to
\* LISTENING: with every mark acknowledged, the clock advancing and media
\* arriving, a frame is accepted again once the cooldown has elapsed. Within
\* the bounds the run may end first, but only after the mark has replaced
\* Infinity: no frame is left to arrive, or the cooldown ends past the clock.
C17_SpeakingEnds ==
  \A ws \in Conns :
    (Has(speakingUntil, ws) /\ speakingUntil[ws] = Infinity)
      ~> \/ Accepted /\ Has(speakingUntil, ws) /\ speakingUntil[ws] <= now
         \/ /\ Has(speakingUntil, ws)
            /\ speakingUntil[ws] # Infinity
            /\ nAppended = MaxFrames \/ speakingUntil[ws] > LastNow

\* a frame has been accepted after a reply was played, its mark acknowledged
\* and the cooldown (a clock value plus Cooldown) elapsed
C17_Witness ==
  /\ Accepted
  /\ pending = 0
  /\ nRuns >= 1
  /\ \E ws \in Conns :
       /\ Greeted(ws)
       /\ Has(speakingUntil, ws)
       /\ speakingUntil[ws] <= now
       /\ \E k \in 0..(MaxNow \div TickMs) : speakingUntil[ws] = k * TickMs + Cooldown

\* C18: before a `start` event has been received on a connection, a `media`
\* or `mark` event is ignored: it changes no per-connection state, buffers
\* no frame and starts no pipeline run.
C18_IgnoredBeforeStart ==
  [][\A ws \in Conns :
       (/\ ~Has(greet, ws)
        /\ (\E t \in BOOLEAN : Media(ws, t)) \/ Mark(ws))
         => UNCHANGED <<audioChunks, streamIds, speakingUntil, conversationHistory,
                        arrays, runs, files, nAppended, nRuns>>]_vars

\* C19: frames are buffered only in LISTENING: while the greeting is being
\* produced, and while a pipeline run is suspended at a provider call, the
\* session counts as muted and a `media` event appends nothing to its buffer.
C19_NoBufferingWhileBusy ==
  [][\A ws \in Conns :
       (/\ \/ Has(greet, ws) /\ greet[ws].pc \in {"sleep", "tts"}
           \/ runs # {}
        /\ \E t \in BOOLEAN : Media(ws, t))
         => UNCHANGED <<audioChunks, nAppended>>]_vars

\* C20: COOLDOWN is entered only from SPEAKING: a `mark` event sets
\* speakingUntil to now + Cooldown when it is Infinity, and in every other
\* state leaves speakingUntil and all other session state unchanged.
C20_MarkOnlyFromSpeaking ==
  [][\A ws \in Conns :
       Mark(ws) =>
         IF Has(speakingUntil, ws) /\ speakingUntil[ws] = Infinity
           THEN speakingUntil'[ws] = now + Cooldown
           ELSE UNCHANGED <<speakingUntil, audioChunks, streamIds,
                            conversationHistory, arrays, runs>>]_vars

\* C21: every outbound audio payload is covered by a mute window: right after
\* a step that sent an outbound `media` (greeting, fallback tone or reply),
\* speakingUntil of the session is Infinity or a timestamp in the future.
C21_PlaybackMuted ==
  \A ws \in Conns :
    (\E i \in 1..Len(sent) : sent[i].event = "media")
      => /\ Has(speakingUntil, ws)
         /\ speakingUntil[ws] > now

====
